---- MODULE Spec2Model ----
(***************************************************************************)
(* Model of generate_video.py (Synapse AI demo video generator).           *)
(*                                                                         *)
(* Spec          the run of the script: generate_video() under the         *)
(*               top-level try/except of __main__.                         *)
(* SpecFont      the font fallback loop at the head of every renderer.     *)
(* SpecHex       hex_to_rgb applied to colour codes and malformed strings. *)
(* SpecTerminal  the command loop of create_terminal_scene.                *)
(* SpecChat      the bubble loop of create_chat_demo_scene.                *)
(* SpecChart     the bar loop of create_comparison_chart.                  *)
(*                                                                         *)
(* Every specification starts the parts it does not exercise in their      *)
(* idle state and leaves them unchanged.                                   *)
(***************************************************************************)
EXTENDS Integers, Sequences, FiniteSets, TLC

VARIABLES
    \* ---- the run: __main__ and generate_video ----
    pc,            \* position of the script
    scene,         \* number of the scene being produced (1..6)
    clips,         \* the list `clips`
    final_clip,    \* result of concatenate_videoclips, or NoClip
    log,           \* what happened so far, in order (prints, renders, appends ...)
    executed,      \* the stages entered so far, in order
    outfile,       \* the file at output_path as left by this run
    exit_status,   \* Running until the process has exited, then 0 or 1
    exc,           \* the stage whose exception is in flight or was handled, or "none"
    caught,        \* how many times the except clause of __main__ was entered
    durations,     \* seconds given to with_duration, per scene
    fades,         \* milliseconds given to FadeIn / FadeOut
    dir_exists,    \* whether OUTPUT_DIR exists on the filesystem
    \* ---- font fallback loop of a renderer ----
    renderer,      \* the renderer whose loop runs
    fs_exists,     \* os.path.exists(path), per candidate
    fs_loads,      \* whether ImageFont.truetype(path, size) succeeds, per candidate and size
    fpc,           \* position in the loop
    path,          \* index of the candidate the for loop is at
    fonts,         \* the font variables of the renderer, in order of assignment
    \* ---- hex_to_rgb ----
    hex_color,     \* the argument, a sequence of characters
    hex_want,      \* the triple and letter case the argument was written from, or NoWantRec
    rgb,           \* Pending, the returned tuple, or ValueError
    \* ---- create_terminal_scene ----
    commands,      \* the list of (text, color) entries
    term_i,        \* index of the entry the for loop is at
    term_y,        \* the cursor y
    term_pos,      \* cursor value at which each processed entry was placed
    term_draws,    \* the draw.text calls made: <<entry index, y>>
    \* ---- create_chat_demo_scene ----
    messages,      \* the list of (role, content) messages
    chat_i,        \* index of the message the for loop is at
    chat_y,        \* the cursor y
    boxes,         \* the rounded rectangles drawn, with the text lines inside
    memory_y,      \* y of the memory hint drawn after the loop, or -1
    \* ---- create_comparison_chart ----
    data,          \* the token values of the data rows
    chart_i,       \* index of the row the for loop is at
    bars           \* the rectangles drawn per row

runVars == <<pc, scene, clips, final_clip, log, executed, outfile, exit_status,
             exc, caught, durations, fades, dir_exists>>

fontVars == <<renderer, fs_exists, fs_loads, fpc, path, fonts>>

hexVars == <<hex_color, hex_want, rgb>>

termVars == <<commands, term_i, term_y, term_pos, term_draws>>

chatVars == <<messages, chat_i, chat_y, boxes, memory_y>>

chartVars == <<data, chart_i, bars>>

vars == <<runVars, fontVars, hexVars, termVars, chatVars, chartVars>>

notRun == <<fontVars, hexVars, termVars, chatVars, chartVars>>

notFont == <<runVars, hexVars, termVars, chatVars, chartVars>>

notHex == <<runVars, fontVars, termVars, chatVars, chartVars>>

notTerm == <<runVars, fontVars, hexVars, chatVars, chartVars>>

notChat == <<runVars, fontVars, hexVars, termVars, chartVars>>

notChart == <<runVars, fontVars, hexVars, termVars, chatVars>>

------------------------------------------------------------------------------
(* Bounds of the model *)

\* every scene lasts its configured number of seconds, or MaxExtraSecs more
MaxExtraSecs == 1

------------------------------------------------------------------------------
(* Configuration *)

FPS == 30

NumScenes == 6

Scenes == 1..NumScenes

\* with_duration(3), (5), (6), (8), (6), (5)
SCENE_DURATION == <<3, 5, 6, 8, 6, 5>>

\* vfx.FadeIn(0.5), vfx.FadeOut(0.5) on scenes 1..5, vfx.FadeOut(1.5) on scene 6
FADE_IN_MS == 500

FADE_OUT_MS == 500

LAST_FADE_OUT_MS == 1500

FadeSet == {0, FADE_IN_MS, LAST_FADE_OUT_MS}

Running == -1

NoClip == [duration |-> -1, order |-> <<>>, starts |-> <<>>]

NoFile == [status |-> "absent", frames |-> 0]

AllStages == <<"render1", "render2", "render3", "render4", "render5", "render6",
               "concat", "export", "summary", "cleanup">>

RenderStage(i) == AllStages[i]

------------------------------------------------------------------------------
(* Helpers *)

RECURSIVE SumSeq(_)
SumSeq(s) == IF s = <<>> THEN 0 ELSE Head(s) + SumSeq(Tail(s))

\* np.cumsum([0] + durations)
RECURSIVE CumSum(_, _)
CumSum(s, acc) == IF s = <<>> THEN <<acc>> ELSE <<acc>> \o CumSum(Tail(s), acc + Head(s))

Last(s) == s[Len(s)]

\* ImageClip(img).with_duration(d).with_effects([FadeIn(a), FadeOut(b)]):
\* the effects change the opacity of frames, never the clip's duration
ImageClip(i) ==
    [scene    |-> i,
     duration |-> durations[i],
     fade_in  |-> fades.fin,
     fade_out |-> IF i = NumScenes THEN fades.last_out ELSE fades.out]

\* A cross-dissolving concatenation: each clip starts while the previous one is
\* still fading out, so the timeline loses the overlaps.
concatenate_crossfade(cs) ==
    LET durs   == [k \in 1..Len(cs) |-> cs[k].duration]
        over   == [k \in 1..Len(cs) |-> IF k = 1 THEN 0 ELSE cs[k].fade_in]
        total  == (SumSeq(durs) * 1000 - SumSeq(over)) \div 1000
    IN  [duration |-> total,
         order    |-> [k \in 1..Len(cs) |-> cs[k].scene],
         starts   |-> SubSeq(CumSum(durs, 0), 1, Len(cs))]

\* concatenate_videoclips(clips, method="compose"), padding 0: clip k starts where
\* clip k-1 ends, and the result lasts until the end of the last clip
concatenate_videoclips(cs) ==
    LET durs    == [k \in 1..Len(cs) |-> cs[k].duration]
        timings == CumSum(durs, 0)
    IN  [duration |-> Last(timings),
         order    |-> [k \in 1..Len(cs) |-> cs[k].scene],
         starts   |-> SubSeq(timings, 1, Len(cs))]

\* number of frames write_videofile encodes for a clip at `fps`
FrameCount(clip, fps) == clip.duration * fps

------------------------------------------------------------------------------
(* Idle states of the parts *)

Pending == "pending"

\* the argument was not written from a triple
NoWantRec == [canonical |-> FALSE, rgb |-> <<>>, upper |-> FALSE, marker |-> FALSE]

RunIdle ==
    /\ pc = "idle"
    /\ scene = 0
    /\ clips = <<>>
    /\ final_clip = NoClip
    /\ log = <<>>
    /\ executed = <<>>
    /\ outfile = NoFile
    /\ exit_status = Running
    /\ exc = "none"
    /\ caught = 0
    /\ durations = SCENE_DURATION
    /\ fades = [fin |-> FADE_IN_MS, out |-> FADE_OUT_MS, last_out |-> LAST_FADE_OUT_MS]
    /\ dir_exists = TRUE

FontIdle ==
    /\ renderer = "none"
    /\ fs_exists = <<>>
    /\ fs_loads = <<>>
    /\ fpc = "idle"
    /\ path = 0
    /\ fonts = <<>>

HexIdle ==
    /\ hex_color = <<>>
    /\ hex_want = NoWantRec
    /\ rgb = [status |-> "idle", value |-> <<>>]

TermIdle ==
    /\ commands = <<>>
    /\ term_i = 0
    /\ term_y = 0
    /\ term_pos = <<>>
    /\ term_draws = <<>>

ChatIdle ==
    /\ messages = <<>>
    /\ chat_i = 0
    /\ chat_y = 0
    /\ boxes = <<>>
    /\ memory_y = -1

ChartIdle ==
    /\ data = <<>>
    /\ chart_i = 0
    /\ bars = <<>>

------------------------------------------------------------------------------
(* The run *)

RunInit ==
    /\ pc = "start"
    /\ scene = 0
    /\ clips = <<>>
    /\ final_clip = NoClip
    /\ log = <<>>
    /\ executed = <<>>
    /\ outfile = NoFile
    /\ exit_status = Running
    /\ exc = "none"
    /\ caught = 0
    /\ durations \in {[i \in Scenes |-> SCENE_DURATION[i] + x[i]] :
                          x \in [Scenes -> {0, MaxExtraSecs}]}
    /\ fades \in [fin : FadeSet, out : FadeSet, last_out : FadeSet]
    /\ dir_exists \in BOOLEAN

Inputs == <<durations, fades, dir_exists>>

\* an exception leaves generate_video from stage `st`
Raise(st) ==
    /\ executed' = Append(executed, st)
    /\ exc' = st
    /\ pc' = "handler"

\* line 422-424
Start ==
    /\ pc = "start"
    /\ log' = Append(log, <<"print", "banner">>)
    /\ clips' = <<>>
    /\ scene' = 1
    /\ pc' = "progress"
    /\ UNCHANGED <<final_clip, executed, outfile, exit_status, exc, caught, Inputs, notRun>>

\* print("... 场景 i/6 ...")
Progress ==
    /\ pc = "progress"
    /\ log' = Append(log, <<"progress", scene>>)
    /\ pc' = "render"
    /\ UNCHANGED <<scene, clips, final_clip, executed, outfile, exit_status, exc,
                   caught, Inputs, notRun>>

\* create_text_image / create_logo_scene / ... returns the frame of the scene
Render ==
    /\ pc = "render"
    /\ log' = Append(log, <<"render", scene>>)
    /\ executed' = Append(executed, RenderStage(scene))
    /\ pc' = "append"
    /\ UNCHANGED <<scene, clips, final_clip, outfile, exit_status, exc, caught, Inputs, notRun>>

\* ... or raises (drawing failure, malformed colour code)
RenderFails ==
    /\ pc = "render"
    /\ Raise(RenderStage(scene))
    /\ UNCHANGED <<scene, clips, final_clip, log, outfile, exit_status, caught, Inputs, notRun>>

\* clips.insert(0, clip) instead of clips.append(clip)
PrependClip ==
    /\ pc = "append"
    /\ clips' = <<ImageClip(scene)>> \o clips
    /\ log' = Append(log, <<"append", scene>>)
    /\ IF scene < NumScenes
         THEN scene' = scene + 1 /\ pc' = "progress"
         ELSE scene' = scene /\ pc' = "concat"
    /\ UNCHANGED <<final_clip, executed, outfile, exit_status, exc, caught, Inputs, notRun>>

\* clip = ImageClip(img).with_duration(..).with_effects(..); clips.append(clip)
AppendClip ==
    /\ pc = "append"
    /\ clips' = Append(clips, ImageClip(scene))
    /\ log' = Append(log, <<"append", scene>>)
    /\ IF scene < NumScenes
         THEN scene' = scene + 1 /\ pc' = "progress"
         ELSE scene' = scene /\ pc' = "concat"
    /\ UNCHANGED <<final_clip, executed, outfile, exit_status, exc, caught, Inputs, notRun>>

\* final_clip = concatenate_videoclips(clips, method="compose")
Concatenate ==
    /\ pc = "concat"
    /\ log' = Append(Append(log, <<"print", "merge">>), <<"concat">>)
    /\ final_clip' = concatenate_videoclips(clips)
    /\ executed' = Append(executed, "concat")
    /\ pc' = "export"
    /\ UNCHANGED <<scene, clips, outfile, exit_status, exc, caught, Inputs, notRun>>

ConcatenateFails ==
    /\ pc = "concat"
    /\ log' = Append(log, <<"print", "merge">>)
    /\ Raise("concat")
    /\ UNCHANGED <<scene, clips, final_clip, outfile, exit_status, caught, Inputs, notRun>>

\* final_clip.write_videofile(output_path, fps=FPS, ...) runs to the end
WriteVideofile ==
    /\ pc = "export"
    /\ dir_exists
    /\ log' = Append(Append(log, <<"print", "save">>), <<"export">>)
    /\ outfile' = [status |-> "complete", frames |-> FrameCount(final_clip, FPS)]
    /\ executed' = Append(executed, "export")
    /\ pc' = "summary"
    /\ UNCHANGED <<scene, clips, final_clip, exit_status, exc, caught, Inputs, notRun>>

\* the parent directory is missing: the encoder cannot create the file
WriteVideofileNoDir ==
    /\ pc = "export"
    /\ ~dir_exists
    /\ log' = Append(log, <<"print", "save">>)
    /\ Raise("export")
    /\ UNCHANGED <<scene, clips, final_clip, outfile, exit_status, caught, Inputs, notRun>>

\* the encoder stops after the file was created (disk full, codec error); the
\* script never removes the file it was writing
WriteVideofileAborted ==
    /\ pc = "export"
    /\ dir_exists
    /\ log' = Append(log, <<"print", "save">>)
    /\ \E n \in {0, FrameCount(final_clip, FPS) - 1} :
          outfile' = [status |-> "partial", frames |-> n]
    /\ Raise("export")
    /\ UNCHANGED <<scene, clips, final_clip, exit_status, caught, Inputs, notRun>>

\* lines 494-497
Summary ==
    /\ pc = "summary"
    /\ log' = Append(log, <<"summary", final_clip.duration, outfile.frames>>)
    /\ executed' = Append(executed, "summary")
    /\ pc' = "cleanup"
    /\ UNCHANGED <<scene, clips, final_clip, outfile, exit_status, exc, caught, Inputs, notRun>>

SummaryFails ==
    /\ pc = "summary"
    /\ Raise("summary")
    /\ UNCHANGED <<scene, clips, final_clip, log, outfile, exit_status, caught, Inputs, notRun>>

\* lines 500-502
Cleanup ==
    /\ pc = "cleanup"
    /\ log' = Append(log, <<"close">>)
    /\ executed' = Append(executed, "cleanup")
    /\ pc' = "return"
    /\ UNCHANGED <<scene, clips, final_clip, outfile, exit_status, exc, caught, Inputs, notRun>>

CleanupFails ==
    /\ pc = "cleanup"
    /\ Raise("cleanup")
    /\ UNCHANGED <<scene, clips, final_clip, log, outfile, exit_status, caught, Inputs, notRun>>

\* generate_video() returned: the interpreter ends with status 0
Return ==
    /\ pc = "return"
    /\ exit_status' = 0
    /\ pc' = "exited"
    /\ UNCHANGED <<scene, clips, final_clip, log, executed, outfile, exc, caught, Inputs, notRun>>

\* an except clause that reports the error and lets the script end normally
HandlerSwallows ==
    /\ pc = "handler"
    /\ caught' = caught + 1
    /\ log' = Append(Append(log, <<"print", "error", exc>>), <<"traceback", exc>>)
    /\ exit_status' = 0
    /\ pc' = "exited"
    /\ UNCHANGED <<scene, clips, final_clip, executed, outfile, exc, Inputs, notRun>>

\* except Exception as e: print(...); traceback.print_exc(); sys.exit(1)
Handler ==
    /\ pc = "handler"
    /\ caught' = caught + 1
    /\ log' = Append(Append(log, <<"print", "error", exc>>), <<"traceback", exc>>)
    /\ exit_status' = 1
    /\ pc' = "exited"
    /\ UNCHANGED <<scene, clips, final_clip, executed, outfile, exc, Inputs, notRun>>

Init == RunInit /\ FontIdle /\ HexIdle /\ TermIdle /\ ChatIdle /\ ChartIdle

Next ==
    \/ Start
    \/ Progress
    \/ Render
    \/ RenderFails
    \/ AppendClip
    \/ Concatenate
    \/ ConcatenateFails
    \/ WriteVideofile
    \/ WriteVideofileNoDir
    \/ WriteVideofileAborted
    \/ Summary
    \/ SummaryFails
    \/ Cleanup
    \/ CleanupFails
    \/ Return
    \/ Handler

Spec == Init /\ [][Next]_vars

------------------------------------------------------------------------------
(* The font fallback loop *)

Renderers == {"create_text_image", "create_comparison_chart", "create_logo_scene",
              "create_terminal_scene", "create_chat_demo_scene",
              "create_github_end_scene"}

\* len(font_paths) of the renderer
NumPaths(r) == IF r = "create_text_image" THEN 4 ELSE 3

\* number of font variables the try block assigns, in order
NumFonts(r) == IF r \in {"create_text_image", "create_terminal_scene"} THEN 2 ELSE 3

\* a font variable holds None, the handle of load_default(), or a handle
\* loaded from candidate p (written p)
None == 0

LoadDefault == -1

FontSlots == 1..NumFonts(renderer)

FontInit ==
    /\ renderer \in Renderers
    /\ fs_exists \in [1..NumPaths(renderer) -> BOOLEAN]
    /\ fs_loads \in [1..NumPaths(renderer) -> [1..NumFonts(renderer) -> BOOLEAN]]
    /\ fpc = "loop"
    /\ path = 1
    /\ fonts = [s \in 1..NumFonts(renderer) |-> None]

InLoop == fpc = "loop" /\ path <= NumPaths(renderer)

LoopOver == fpc = "break" \/ (fpc = "loop" /\ path > NumPaths(renderer))

\* the slots whose truetype call raises for candidate p
Failing(p) == {s \in FontSlots : ~fs_loads[p][s]}

FirstFailing(p) == CHOOSE s \in Failing(p) : \A t \in Failing(p) : s <= t

\* if os.path.exists(path) is false: next candidate
SkipMissing ==
    /\ InLoop
    /\ ~fs_exists[path]
    /\ path' = path + 1
    /\ UNCHANGED <<renderer, fs_exists, fs_loads, fpc, fonts, notFont>>

\* try: every truetype call succeeds; break
LoadAll ==
    /\ InLoop
    /\ fs_exists[path]
    /\ Failing(path) = {}
    /\ fonts' = [s \in FontSlots |-> path]
    /\ fpc' = "break"
    /\ UNCHANGED <<renderer, fs_exists, fs_loads, path, notFont>>

\* try: a truetype call raises after the earlier ones assigned their
\* variables; except: continue
LoadFails ==
    /\ InLoop
    /\ fs_exists[path]
    /\ Failing(path) # {}
    /\ fonts' = [s \in FontSlots |-> IF s < FirstFailing(path) THEN path ELSE fonts[s]]
    /\ path' = path + 1
    /\ UNCHANGED <<renderer, fs_exists, fs_loads, fpc, notFont>>

\* if <first font> is None: every font variable = ImageFont.load_default()
UseDefault ==
    /\ LoopOver
    /\ fonts[1] = None
    /\ fonts' = [s \in FontSlots |-> LoadDefault]
    /\ fpc' = "done"
    /\ UNCHANGED <<renderer, fs_exists, fs_loads, path, notFont>>

\* the first font variable is set: the renderer goes on with the variables as they are
KeepFonts ==
    /\ LoopOver
    /\ fonts[1] # None
    /\ fpc' = "done"
    /\ UNCHANGED <<renderer, fs_exists, fs_loads, path, fonts, notFont>>

InitFont == RunIdle /\ FontInit /\ HexIdle /\ TermIdle /\ ChatIdle /\ ChartIdle

NextFont ==
    \/ SkipMissing
    \/ LoadAll
    \/ LoadFails
    \/ UseDefault
    \/ KeepFonts

SpecFont == InitFont /\ [][NextFont]_vars

\* the candidates that exist and load at every requested size
Usable == {p \in 1..NumPaths(renderer) : fs_exists[p] /\ Failing(p) = {}}

\* C1: after the fallback loop every font variable is set, and all of them
\* come from one source: the first candidate that exists and loads at every
\* size, or the built-in default font when there is no such candidate.
C1_FontFallback ==
    fpc = "done" =>
        /\ \A s \in FontSlots : fonts[s] # None
        /\ IF Usable # {}
             THEN \A s \in FontSlots : fonts[s] = CHOOSE p \in Usable : \A q \in Usable : p <= q
             ELSE \A s \in FontSlots : fonts[s] = LoadDefault

------------------------------------------------------------------------------
(* hex_to_rgb *)

\* A string is a sequence of one-character strings.
LowerDigits == <<"0", "1", "2", "3", "4", "5", "6", "7", "8", "9",
                 "a", "b", "c", "d", "e", "f">>

UpperDigits == <<"0", "1", "2", "3", "4", "5", "6", "7", "8", "9",
                 "A", "B", "C", "D", "E", "F">>

Range(f) == {f[k] : k \in DOMAIN f}

IsHexDigit(c) == c \in Range(LowerDigits) \cup Range(UpperDigits)

IsSpace(c) == c \in {" ", "\t", "\n", "\r", "\f"}

DigitVal(c) == (CHOOSE k \in 1..16 : LowerDigits[k] = c \/ UpperDigits[k] = c) - 1

Parsed(n) == [ok |-> TRUE, val |-> n]

ParseError == [ok |-> FALSE, val |-> 0]

\* int(s, 16) for a string of at most two characters: surrounding whitespace
\* is stripped, one sign is accepted, and at least one hex digit must remain
\* ("0x" alone and underscores next to nothing are rejected)
Int16(s) ==
    CASE Len(s) = 0 -> ParseError
      [] Len(s) = 1 -> IF IsHexDigit(s[1]) THEN Parsed(DigitVal(s[1])) ELSE ParseError
      [] OTHER ->
           IF IsHexDigit(s[1]) /\ IsHexDigit(s[2])
             THEN Parsed(16 * DigitVal(s[1]) + DigitVal(s[2]))
           ELSE IF IsSpace(s[1]) /\ IsHexDigit(s[2]) THEN Parsed(DigitVal(s[2]))
           ELSE IF IsHexDigit(s[1]) /\ IsSpace(s[2]) THEN Parsed(DigitVal(s[1]))
           ELSE IF s[1] = "+" /\ IsHexDigit(s[2]) THEN Parsed(DigitVal(s[2]))
           ELSE IF s[1] = "-" /\ IsHexDigit(s[2]) THEN Parsed(0 - DigitVal(s[2]))
           ELSE ParseError

\* s.lstrip('#'): every leading '#' is removed
RECURSIVE Lstrip(_)
Lstrip(s) == IF s # <<>> /\ Head(s) = "#" THEN Lstrip(Tail(s)) ELSE s

\* s[i:j] with Python's clamping of the bounds (i, j 0-based, j exclusive)
Slice(s, i, j) ==
    LET hi == IF j < Len(s) THEN j ELSE Len(s)
    IN  IF i >= hi THEN <<>> ELSE SubSeq(s, i + 1, hi)

Returned(t) == [status |-> "returned", value |-> t]

ValueError == [status |-> "ValueError", value |-> <<>>]

\* the channels read in the order blue, green, red
hex_to_rgb_bgr(h) ==
    LET c  == Lstrip(h)
        ch == [k \in 1..3 |-> Int16(Slice(c, 2 * (3 - k), 2 * (3 - k) + 2))]
    IN  IF \A k \in 1..3 : ch[k].ok
          THEN Returned([k \in 1..3 |-> ch[k].val])
          ELSE ValueError

\* tuple(int(hex_color[i:i+2], 16) for i in (0, 2, 4)) after lstrip('#')
hex_to_rgb(h) ==
    LET c  == Lstrip(h)
        ch == [k \in 1..3 |-> Int16(Slice(c, 2 * (k - 1), 2 * (k - 1) + 2))]
    IN  IF \A k \in 1..3 : ch[k].ok
          THEN Returned([k \in 1..3 |-> ch[k].val])
          ELSE ValueError

\* longest argument tried, in characters
MaxHexLen == 7

Byte == 0..255

\* '%02x' / '%02X' of one channel
ToHex2(n, upper) ==
    LET d == IF upper THEN UpperDigits ELSE LowerDigits
    IN  <<d[(n \div 16) + 1], d[(n % 16) + 1]>>

ToHex(t, upper) == ToHex2(t[1], upper) \o ToHex2(t[2], upper) \o ToHex2(t[3], upper)

\* the extreme channel values
SampleBytes == {0, 255}

\* triples with one channel ranging over every byte, the others over SampleBytes
SampleTriples ==
    UNION {{[k \in 1..3 |-> IF k = p THEN v ELSE o[k]] : v \in Byte, o \in [1..3 -> SampleBytes]}
             : p \in 1..3}

\* characters of the arbitrary arguments: the marker, a digit, a letter that
\* is no digit, a sign
Alphabet == {"#", "F", "g", "-"}

Strings(n) == UNION {[1..k -> Alphabet] : k \in 0..n}

HexInit ==
    /\ rgb = [status |-> Pending, value |-> <<>>]
    /\ \/ /\ hex_want \in [canonical : {TRUE}, rgb : SampleTriples,
                           upper : BOOLEAN, marker : BOOLEAN]
          /\ hex_color = (IF hex_want.marker THEN <<"#">> ELSE <<>>)
                            \o ToHex(hex_want.rgb, hex_want.upper)
       \/ /\ hex_want = NoWantRec
          /\ hex_color \in Strings(MaxHexLen)

\* a caller evaluates hex_to_rgb(hex_color)
CallHexToRgb ==
    /\ rgb.status = Pending
    /\ rgb' = hex_to_rgb(hex_color)
    /\ UNCHANGED <<hex_color, hex_want, notHex>>

InitHex == RunIdle /\ FontIdle /\ HexInit /\ TermIdle /\ ChatIdle /\ ChartIdle

NextHex == CallHexToRgb

SpecHex == InitHex /\ [][NextHex]_vars

\* the argument without one optional leading marker
Body(h) == IF h # <<>> /\ Head(h) = "#" THEN Tail(h) ELSE h

\* exactly six hex digits after one optional leading marker
IsValidCode(h) == Len(Body(h)) = 6 /\ \A k \in 1..6 : IsHexDigit(Body(h)[k])

AllIn(h, digits) == \A k \in 1..Len(h) : h[k] \in Range(digits)

Called == rgb.status \in {"returned", "ValueError"}

\* C9: a valid six-digit code, with or without the marker, yields three
\* integers in 0..255; codes of one letter case map to different triples
\* (the triple written back in that case is the code), and every triple is
\* the image of the code written from it.
C9_HexBijection ==
    Called /\ IsValidCode(hex_color) =>
        /\ rgb.status = "returned"
        /\ Len(rgb.value) = 3
        /\ \A k \in 1..3 : rgb.value[k] \in Byte
        /\ AllIn(Body(hex_color), UpperDigits) => ToHex(rgb.value, TRUE) = Body(hex_color)
        /\ AllIn(Body(hex_color), LowerDigits) => ToHex(rgb.value, FALSE) = Body(hex_color)
        /\ hex_want.canonical => rgb.value = hex_want.rgb

C9_Witness ==
    /\ rgb.status = "returned"
    /\ hex_want.canonical /\ hex_want.marker /\ ~hex_want.upper
    /\ hex_color = <<"#", "f", "f", "3", "b", "0", "0">>
    /\ rgb.value = <<255, 59, 0>>

\* C10: an argument that is not exactly six hex digits after one optional
\* leading marker makes hex_to_rgb raise, never return.
C10_MalformedRaises ==
    Called /\ ~IsValidCode(hex_color) => rgb.status = "ValueError"

------------------------------------------------------------------------------
(* create_terminal_scene: the command loop *)

\* longest list of entries tried
MaxCommands == 5

\* x, y = 40, 80
TERM_X == 40

TERM_START_Y == 80

\* y += 40
TERM_LINE_PITCH == 40

\* entries as they occur in `commands`: a blank one, a prompt, a command line
TermEntries ==
    {[text |-> "", color |-> <<>>],
     [text |-> "$ ", color |-> <<"#", "6", "C", "C", "6", "4", "4">>],
     [text |-> "npm run build", color |-> <<"#", "F", "8", "F", "A", "F", "C">>]}

TermInit ==
    /\ commands \in UNION {[1..n -> TermEntries] : n \in 0..MaxCommands}
    /\ term_i = 1
    /\ term_y = TERM_START_Y
    /\ term_pos = <<>>
    /\ term_draws = <<>>

\* if text: draw.text((x, y), text, fill=hex_to_rgb(color), font=font); y += 40
DrawEntry ==
    /\ term_i <= Len(commands)
    /\ commands[term_i].text # ""
    /\ term_draws' = Append(term_draws,
                            [entry |-> term_i, x |-> TERM_X, y |-> term_y,
                             fill |-> hex_to_rgb(commands[term_i].color).value])
    /\ term_pos' = Append(term_pos, term_y)
    /\ term_y' = term_y + TERM_LINE_PITCH
    /\ term_i' = term_i + 1
    /\ UNCHANGED <<commands, notTerm>>

\* if text: is false; the body of the if, the advance of y included, is skipped
SkipBlank ==
    /\ term_i <= Len(commands)
    /\ commands[term_i].text = ""
    /\ term_pos' = Append(term_pos, term_y)
    /\ term_i' = term_i + 1
    /\ UNCHANGED <<commands, term_y, term_draws, notTerm>>

InitTerminal == RunIdle /\ FontIdle /\ HexIdle /\ TermInit /\ ChatIdle /\ ChartIdle

NextTerminal ==
    \/ DrawEntry
    \/ SkipBlank

SpecTerminal == InitTerminal /\ [][NextTerminal]_vars

\* C6: a blank entry draws nothing but advances the cursor by the line pitch:
\* the k-th entry (0-based) is placed at start_y + k * pitch, and after n
\* entries the cursor is start_y + n * pitch.
C6_TerminalPitch ==
    /\ \A k \in 1..Len(term_pos) : term_pos[k] = TERM_START_Y + (k - 1) * TERM_LINE_PITCH
    /\ \A d \in 1..Len(term_draws) :
         /\ commands[term_draws[d].entry].text # ""
         /\ term_draws[d].y = TERM_START_Y + (term_draws[d].entry - 1) * TERM_LINE_PITCH
    /\ term_y = TERM_START_Y + (term_i - 1) * TERM_LINE_PITCH

------------------------------------------------------------------------------
(* create_chat_demo_scene: the bubble loop *)

\* longest list of messages tried (the shipped list has 4)
MaxMessages == 4

\* y = 120
CHAT_START_Y == 120

\* padding = 15
CHAT_PADDING == 15

\* max_width = 700
CHAT_MAX_WIDTH == 700

\* line_height = 30
CHAT_LINE_HEIGHT == 30

\* y += box_height + 25
CHAT_GAP == 25

\* box_x of a user message is RESOLUTION[0] - max_width - 80, of the others 80
CHAT_MARGIN == 80

RESOLUTION == <<1920, 1080>>

Newline == "\n"

\* Contents, every character that is no newline written "a": the empty
\* string, one line, a line with a trailing newline, and the two multi-line
\* answers of the shipped list (6 and 7 lines, with their empty lines)
Contents ==
    {<<>>,
     <<"a">>,
     <<"a", Newline>>,
     <<"a", Newline, Newline, "a", Newline, "a", Newline, "a", Newline, "a">>,
     <<"a", Newline, Newline, "a", Newline, "a", Newline, "a", Newline, Newline, "a">>}

\* content.split('\n'): the pieces between newlines, empty pieces included
RECURSIVE Split(_, _)
Split(str, cur) ==
    IF str = <<>> THEN <<cur>>
    ELSE IF Head(str) = Newline THEN <<cur>> \o Split(Tail(str), <<>>)
    ELSE Split(Tail(str), Append(cur, Head(str)))

\* the height with the padding counted on one side only
box_height_one_pad(lines) == Len(lines) * CHAT_LINE_HEIGHT + CHAT_PADDING

\* box_height = len(lines) * line_height + padding * 2
box_height(lines) == Len(lines) * CHAT_LINE_HEIGHT + CHAT_PADDING * 2

ChatInit ==
    /\ messages \in UNION {[1..n -> [role : {"user", "ai"}, content : Contents]]
                              : n \in 0..MaxMessages}
    /\ chat_i = 1
    /\ chat_y = CHAT_START_Y
    /\ boxes = <<>>
    /\ memory_y = -1

\* one iteration of `for role, content in messages`
DrawBubble ==
    /\ chat_i <= Len(messages)
    /\ LET m      == messages[chat_i]
           lines  == Split(m.content, <<>>)
           h      == box_height(lines)
           box_x  == IF m.role = "user"
                       THEN RESOLUTION[1] - CHAT_MAX_WIDTH - CHAT_MARGIN
                       ELSE CHAT_MARGIN
       IN  /\ boxes' = Append(boxes,
                 [x0 |-> box_x, y0 |-> chat_y,
                  x1 |-> box_x + CHAT_MAX_WIDTH, y1 |-> chat_y + h,
                  text_x |-> box_x + CHAT_PADDING,
                  text_y |-> [j \in 1..Len(lines) |->
                                 chat_y + CHAT_PADDING + (j - 1) * CHAT_LINE_HEIGHT]])
           /\ chat_y' = chat_y + h + CHAT_GAP
    /\ chat_i' = chat_i + 1
    /\ UNCHANGED <<messages, memory_y, notChat>>

\* draw.text((80, y+15), memory_text, ...) after the loop
DrawMemoryHint ==
    /\ chat_i > Len(messages)
    /\ memory_y = -1
    /\ memory_y' = chat_y + 15
    /\ UNCHANGED <<messages, chat_i, chat_y, boxes, notChat>>

InitChat == RunIdle /\ FontIdle /\ HexIdle /\ TermIdle /\ ChatInit /\ ChartIdle

NextChat ==
    \/ DrawBubble
    \/ DrawMemoryHint

SpecChat == InitChat /\ [][NextChat]_vars

\* number of lines of a content: one more than its newlines
LineCount(str) == Cardinality({k \in 1..Len(str) : str[k] = Newline}) + 1

\* the height the claim gives a bubble
ClaimedHeight(k) == LineCount(messages[k].content) * 30 + 2 * 15

RECURSIVE ClaimedCursor(_)
ClaimedCursor(n) == IF n = 0 THEN 120 ELSE ClaimedCursor(n - 1) + ClaimedHeight(n) + 25

\* C7: a bubble is line_count * line_height + 2 * padding high, its top edge is
\* the cursor before it, the cursor after N bubbles is the start offset plus
\* the sum of (height + gap) over them, and consecutive bubbles do not overlap.
C7_ChatCursor ==
    /\ \A k \in 1..Len(boxes) :
         /\ boxes[k].y1 - boxes[k].y0 = ClaimedHeight(k)
         /\ boxes[k].y0 = ClaimedCursor(k - 1)
         /\ k > 1 => boxes[k].y0 > boxes[k - 1].y1
    /\ chat_y = ClaimedCursor(Len(boxes))
    /\ Len(boxes) = chat_i - 1

\* the shipped list: user (1 line), ai (6 lines), user (1 line), ai (7 lines)
C7_Witness ==
    /\ Len(boxes) = 4
    /\ [k \in 1..4 |-> messages[k].role] = <<"user", "ai", "user", "ai">>
    /\ [k \in 1..4 |-> LineCount(messages[k].content)] = <<1, 6, 1, 7>>
    /\ chat_y = 790
    /\ memory_y = 805

------------------------------------------------------------------------------
(* Double-precision arithmetic of the bar width *)

\* A positive Python float has a significand of 53 bits. It is written
\* [m, e]: m = <<1, l1, l2, l3, l4>>, the leading bit followed by four limbs
\* of LimbBits bits, most significant first, and e the exponent of the last
\* bit: the value is (2^52 + l1 * 2^39 + l2 * 2^26 + l3 * 2^13 + l4) * 2^e.
LimbBits == 13

NumLimbs == 4

RECURSIVE Pow2(_)
Pow2(k) == IF k = 0 THEN 1 ELSE 2 * Pow2(k - 1)

Limb == Pow2(LimbBits)

\* exponent of the leading bit relative to the last one
TopExp == NumLimbs * LimbBits

\* smallest k with a * 2^k >= b
RECURSIVE ShiftUp(_, _, _)
ShiftUp(a, b, k) == IF a >= b THEN k ELSE ShiftUp(2 * a, b, k + 1)

\* number of bits of n >= 1
RECURSIVE BitLen(_)
BitLen(n) == IF n <= 1 THEN 1 ELSE 1 + BitLen(n \div 2)

\* the next n limbs of the quotient r / b (r < b), most significant first
RECURSIVE DivLimbs(_, _, _)
DivLimbs(r, b, n) ==
    IF n = 0 THEN <<>>
    ELSE <<(r * Limb) \div b>> \o DivLimbs((r * Limb) % b, b, n - 1)

\* the remainder left after those n limbs
RECURSIVE DivRem(_, _, _)
DivRem(r, b, n) == IF n = 0 THEN r ELSE DivRem((r * Limb) % b, b, n - 1)

\* limbs + 1, least significant first, with the carry out of the top limb
RECURSIVE IncLimbs(_)
IncLimbs(ls) ==
    IF ls = <<>> THEN <<>>
    ELSE IF Head(ls) + 1 < Limb THEN <<Head(ls) + 1>> \o Tail(ls)
    ELSE <<0>> \o IncLimbs(Tail(ls))

Reverse(s) == [k \in 1..Len(s) |-> s[Len(s) + 1 - k]]

\* the significand one unit in the last place up; 1.11...1 becomes 1.00...0
\* with the exponent one higher
RoundUp(f) ==
    LET low == [k \in 1..NumLimbs |-> f.m[k + 1]]
    IN  IF \A k \in 1..NumLimbs : low[k] = Limb - 1
          THEN [m |-> <<1>> \o [k \in 1..NumLimbs |-> 0], e |-> f.e + 1]
          ELSE [m |-> <<1>> \o Reverse(IncLimbs(Reverse(low))), e |-> f.e]

\* a / b for integers 0 < a <= b: the quotient rounded to the nearest float,
\* ties to even
FDiv(a, b) ==
    LET k    == ShiftUp(a, b, 0)
        r    == a * Pow2(k) - b
        low  == DivLimbs(r, b, NumLimbs)
        rest == DivRem(r, b, NumLimbs)
        down == [m |-> <<1>> \o low, e |-> 0 - TopExp - k]
    IN  IF 2 * rest > b \/ (2 * rest = b /\ low[NumLimbs] % 2 = 1)
          THEN RoundUp(down) ELSE down

\* limbs * w + carry, least significant first; the last element is the
\* carry out of the top limb
RECURSIVE MulLimbs(_, _, _)
MulLimbs(ls, w, carry) ==
    IF ls = <<>> THEN <<carry>>
    ELSE LET v == Head(ls) * w + carry
         IN  <<v % Limb>> \o MulLimbs(Tail(ls), w, v \div Limb)

\* f * w for an integer 1 <= w < 2^LimbBits: the exact product rounded to the
\* nearest float, ties to even
FMul(f, w) ==
    LET low   == [k \in 1..NumLimbs |-> f.m[k + 1]]
        prod  == Reverse(MulLimbs(Reverse(low), w, 0))
        \* the product is top * 2^52 + the four limbs after it
        top   == w + prod[1]
        d     == BitLen(top) - 1
        cut   == Pow2(d)
        whole == <<top>> \o [k \in 1..NumLimbs |-> prod[k + 1]]
        \* the product shifted right by d bits
        kept  == [k \in 1..NumLimbs |->
                     (whole[k] % cut) * (Limb \div cut) + (whole[k + 1] \div cut)]
        lost  == whole[NumLimbs + 1] % cut
        down  == [m |-> <<1>> \o kept, e |-> f.e + d]
    IN  IF 2 * lost > cut \/ (2 * lost = cut /\ kept[NumLimbs] % 2 = 1)
          THEN RoundUp(down) ELSE down

\* int(f) for a float below 2^(2 * LimbBits + 1): the bits above the binary point
Trunc(f) ==
    LET s == 0 - f.e
    IN  IF s > TopExp THEN 0
        ELSE IF s >= TopExp - LimbBits
          THEN (f.m[1] * Limb + f.m[2]) \div Pow2(s - (TopExp - LimbBits))
        ELSE ((f.m[1] * Limb + f.m[2]) * Limb + f.m[3]) \div Pow2(s - (TopExp - 2 * LimbBits))

------------------------------------------------------------------------------
(* create_comparison_chart: the bar loop *)

\* longest list of data rows tried
MaxRows == 3

\* the token values of `data`
DATA_TOKENS == <<15000, 10000, 5000>>

max_tokens == 15000

bar_max_width == 800

CHART_START_Y == 250

bar_height == 80

CHART_GAP == 120

\* x of the left edge of track and bar
CHART_BAR_X == 400

\* bar_width = int((tokens / max_tokens) * bar_max_width)
bar_width(tokens) ==
    IF tokens = 0 THEN 0 ELSE Trunc(FMul(FDiv(tokens, max_tokens), bar_max_width))

ChartInit ==
    /\ \E n \in 0..MaxRows : \E p \in 1..n : \E v \in 0..max_tokens :
          data = [k \in 1..n |-> IF k = p THEN v ELSE DATA_TOKENS[((k - 1) % 3) + 1]]
    /\ chart_i = 1
    /\ bars = <<>>

\* one iteration of `for i, (name, tokens, color, cost) in enumerate(data)`
DrawRow ==
    /\ chart_i <= Len(data)
    /\ LET y == CHART_START_Y + (chart_i - 1) * CHART_GAP
           w == bar_width(data[chart_i])
       IN  bars' = Append(bars,
               [y     |-> y,
                track |-> <<CHART_BAR_X, y, CHART_BAR_X + bar_max_width, y + bar_height>>,
                bar   |-> <<CHART_BAR_X, y, CHART_BAR_X + w, y + bar_height>>])
    /\ chart_i' = chart_i + 1
    /\ UNCHANGED <<data, notChart>>

InitChart == RunIdle /\ FontIdle /\ HexIdle /\ TermIdle /\ ChatIdle /\ ChartInit

NextChart == DrawRow

SpecChart == InitChart /\ [][NextChart]_vars

Width(rect) == rect[3] - rect[1]

\* C8: a row whose value is the maximum gets a bar of the maximum width, a row
\* whose value is zero a bar of width zero, every value between gets
\* value / max_value * max_bar_width truncated to an integer, never wider than
\* the track; row i is drawn at the start offset plus i times the step.
C8_BarWidth ==
    \A k \in 1..Len(bars) :
        /\ data[k] = max_tokens => Width(bars[k].bar) = bar_max_width
        /\ data[k] = 0 => Width(bars[k].bar) = 0
        /\ Width(bars[k].bar) * max_tokens <= data[k] * bar_max_width
        /\ (Width(bars[k].bar) + 1) * max_tokens > data[k] * bar_max_width
        /\ Width(bars[k].bar) <= Width(bars[k].track)
        /\ bars[k].y = CHART_START_Y + (k - 1) * CHART_GAP

------------------------------------------------------------------------------
(* Properties of the run *)

Exited == pc = "exited"

IsPrefix(s, t) == Len(s) <= Len(t) /\ s = SubSeq(t, 1, Len(s))

\* index of the first occurrence of event e in the log, 0 when absent
Pos(e) == IF \E k \in 1..Len(log) : log[k] = e
            THEN CHOOSE k \in 1..Len(log) : log[k] = e /\ \A j \in 1..(k-1) : log[j] # e
            ELSE 0

Count(e) == Cardinality({k \in 1..Len(log) : log[k] = e})

Before(a, b) == Pos(a) > 0 /\ Pos(a) < Pos(b)

\* C2: a run in which every stage completes exits with status 0; a run in which
\* a stage raises is caught exactly once at the top level, prints the message
\* and the stack trace, exits with status 1, and runs no stage after the
\* failing one and no stage twice.
C2_ExitStatus ==
    /\ caught <= 1
    /\ IsPrefix(executed, AllStages)
    /\ Exited =>
         /\ exc = "none" =>
              /\ exit_status = 0
              /\ executed = AllStages
              /\ caught = 0
         /\ exc # "none" =>
              /\ exit_status = 1
              /\ caught = 1
              /\ Last(executed) = exc
              /\ Len(log) >= 2
              /\ log[Len(log) - 1] = <<"print", "error", exc>>
              /\ log[Len(log)] = <<"traceback", exc>>
         /\ executed = AllStages /\ exc = "none" <=> exit_status = 0

C2_Witness == Exited /\ exc = "render4" /\ exit_status = 1 /\ Len(clips) = 3

\* C3: in every terminal state the output path holds either one complete video
\* written by this run, with exit status 0, or no file written by this run,
\* with a non-zero exit status.
C3_OutputAtomic ==
    Exited =>
        \/ outfile.status = "complete" /\ exit_status = 0
        \/ outfile.status = "absent" /\ exit_status # 0 /\ exit_status # Running

\* C4: scenes are rendered in the order 1..6, the progress line of a scene is
\* printed before the scene is rendered, clips are appended in the same order
\* and the timeline keeps it, concatenation starts after all six clips exist,
\* export after concatenation, and the summary after the export completed.
C4_PipelineOrder ==
    /\ \A k \in 1..Len(clips) : clips[k].scene = k
    /\ \A i \in Scenes :
         /\ Count(<<"progress", i>>) <= 1
         /\ Count(<<"render", i>>) <= 1
         /\ Count(<<"append", i>>) <= 1
         /\ Pos(<<"render", i>>) > 0 => Before(<<"progress", i>>, <<"render", i>>)
         /\ Pos(<<"append", i>>) > 0 => Before(<<"render", i>>, <<"append", i>>)
         /\ i > 1 /\ Pos(<<"progress", i>>) > 0 =>
                Before(<<"append", i - 1>>, <<"progress", i>>)
    /\ Pos(<<"concat">>) > 0 =>
         /\ Len(clips) = NumScenes
         /\ Before(<<"append", NumScenes>>, <<"concat">>)
         /\ final_clip.order = <<1, 2, 3, 4, 5, 6>>
         /\ \A k \in 1..(NumScenes - 1) :
               final_clip.starts[k + 1] = final_clip.starts[k] + clips[k].duration
    /\ Pos(<<"export">>) > 0 => Before(<<"concat">>, <<"export">>)
    /\ \A k \in 1..Len(log) : log[k][1] = "summary" =>
         /\ Pos(<<"export">>) > 0 /\ Pos(<<"export">>) < k
         /\ outfile.status = "complete"

C4_Witness == Exited /\ exit_status = 0 /\ log[Len(log) - 1][1] = "summary"

\* C5: the timeline lasts exactly the sum of the six scene durations, whatever
\* the fade-in and fade-out durations; with 3, 5, 6, 8, 6, 5 seconds at 30
\* frames per second that is 33 seconds, 990 frames.
C5_TimelineDuration ==
    final_clip # NoClip =>
        /\ final_clip.duration = SumSeq(durations)
        /\ durations = SCENE_DURATION =>
             /\ final_clip.duration = 33
             /\ FrameCount(final_clip, FPS) = 990

C5_Witness ==
    /\ final_clip # NoClip
    /\ durations = SCENE_DURATION
    /\ fades = [fin |-> LAST_FADE_OUT_MS, out |-> 0, last_out |-> FADE_OUT_MS]
    /\ outfile.status = "complete"

====
